---- MODULE Spec2Model ----
(***************************************************************************)
(* Model of docker/presets/download_script.go: the weight downloader.      *)
(*                                                                         *)
(* Three specifications over one set of variables:                         *)
(*   Spec      the whole program: main parses os.Args, checks the output   *)
(*             directory, resolves the URL list, starts one goroutine per  *)
(*             URL and waits on the WaitGroup; FairSpec adds fairness.     *)
(*   SpecURLs  getURLsForModel as a function of its three arguments.       *)
(*   SpecWC    a WriteCounter receiving a sequence of Write calls.         *)
(*                                                                         *)
(* Strings are TLA+ strings and fmt.Sprintf is modelled by concatenation   *)
(* and by the digit formatting of %05d.  A local file is identified by     *)
(* the URL it is downloaded from.  A goroutine's client.Do and io.Copy     *)
(* are one step, the HTTP transfer; os.Create before it is another.        *)
(***************************************************************************)
EXTENDS Integers, Sequences, FiniteSets, TLC

VARIABLES
    osArgs,           \* os.Args, the program name first
    envToken,         \* the value of AUTH_TOKEN_ENV_VAR in the environment
    dirState,         \* what the output path is: "absent", "dir" or "file"
    pc,               \* main's position
    exit,             \* "running", "ok" (main returned) or "fail" (os.Exit(1))
    logged,           \* what log.Fatal wrote, "" when nothing
    linkType, modelVersion, outputDirectory, token, baseURL,  \* main's locals
    envRead,          \* os.Getenv("AUTH_TOKEN_ENV_VAR") was called
    resolved,         \* getURLsForModel was called
    urls,             \* main's urls
    wg,               \* the WaitGroup counter
    task,             \* the goroutines started, in launch order
    files,            \* local files created by os.Create
    gets,             \* url -> the Authorization header of each GET handed to client.Do
    wcTotal, wcRead, wcLastReported,   \* a WriteCounter's fields
    wcChunks,         \* the lengths of the chunks passed to Write so far
    wcPrinted,        \* the read values of the progress lines printed so far
    wcRet             \* what the last Write returned

progVars == <<osArgs, envToken, dirState, pc, exit, logged, linkType, modelVersion,
              outputDirectory, token, baseURL, envRead, resolved, urls, wg, task,
              files, gets>>
wcVars == <<wcTotal, wcRead, wcLastReported, wcChunks, wcPrinted, wcRet>>
vars == <<progVars, wcVars>>

PublicLink == "public"
PrivateLink == "private"

\* The Authorization header of a request that has none.
NoHeader == "none"

(***************************************************************************)
(* Formatting.                                                             *)
(***************************************************************************)
DigitChar(d) ==
    CASE d = 0 -> "0" [] d = 1 -> "1" [] d = 2 -> "2" [] d = 3 -> "3" [] d = 4 -> "4"
      [] d = 5 -> "5" [] d = 6 -> "6" [] d = 7 -> "7" [] d = 8 -> "8" [] d = 9 -> "9"

RECURSIVE Decimal(_)
Decimal(n) == IF n < 10 THEN DigitChar(n) ELSE Decimal(n \div 10) \o DigitChar(n % 10)

RECURSIVE ZeroPad(_, _)
ZeroPad(s, width) == IF Len(s) >= width THEN s ELSE ZeroPad("0" \o s, width)

\* fmt.Sprintf("%05d", n) for n >= 0
Fmt05d(n) == ZeroPad(Decimal(n), 5)

(***************************************************************************)
(* The URL resolver.                                                       *)
(***************************************************************************)
falconCommonURLs(mv) ==
    << "https://huggingface.co/" \o mv \o "/raw/main/config.json",
       "https://huggingface.co/" \o mv \o "/raw/main/pytorch_model.bin.index.json",
       "https://huggingface.co/" \o mv \o "/raw/main/tokenizer.json",
       "https://huggingface.co/" \o mv \o "/raw/main/tokenizer_config.json",
       "https://huggingface.co/" \o mv \o "/raw/main/special_tokens_map.json",
       "https://huggingface.co/" \o mv \o "/raw/main/configuration_falcon.py",
       "https://huggingface.co/" \o mv \o "/raw/main/generation_config.json",
       "https://huggingface.co/" \o mv \o "/raw/main/modeling_falcon.py" >>

\* falconModelURLs with its loop started at 0 instead of 1.
falconModelURLsFromZero(mv, count) ==
    [i \in 1..count |->
        "https://huggingface.co/" \o mv \o "/resolve/main/pytorch_model-"
            \o Fmt05d(i - 1) \o "-of-" \o Fmt05d(count) \o ".bin"]

falconModelURLs(mv, count) ==
    [i \in 1..count |->
        "https://huggingface.co/" \o mv \o "/resolve/main/pytorch_model-"
            \o Fmt05d(i) \o "-of-" \o Fmt05d(count) \o ".bin"]

\* A resolver's result: the list, or the log.Fatalf that ends the process.
Returned(list) == [ok |-> TRUE, urls |-> list]
Fatalf == [ok |-> FALSE, urls |-> <<>>]

getPrivateURLsForModel(base, mv) ==
    CASE mv \in {"llama-2-7b", "llama-2-7b-chat"} ->
            Returned(<< base \o mv \o "/consolidated.00.pth",
                        base \o mv \o "/params.json" >>)
      [] mv \in {"llama-2-13b", "llama-2-13b-chat"} ->
            Returned(<< base \o mv \o "/consolidated.00.pth",
                        base \o mv \o "/consolidated.01.pth",
                        base \o mv \o "/params.json" >>)
      [] mv \in {"llama-2-70b", "llama-2-70b-chat"} ->
            Returned(<< base \o mv \o "/consolidated.00.pth",
                        base \o mv \o "/consolidated.01.pth",
                        base \o mv \o "/consolidated.03.pth",
                        base \o mv \o "/consolidated.04.pth",
                        base \o mv \o "/consolidated.05.pth",
                        base \o mv \o "/consolidated.06.pth",
                        base \o mv \o "/consolidated.07.pth",
                        base \o mv \o "/params.json" >>)
      [] OTHER -> Fatalf

getURLsForModel(lt, base, mv) ==
    IF lt = PublicLink
    THEN CASE mv \in {"tiiuae/falcon-7b", "tiiuae/falcon-7b-instruct"} ->
                 Returned(falconModelURLs(mv, 2) \o falconCommonURLs(mv))
           [] mv \in {"tiiuae/falcon-40b", "tiiuae/falcon-40b-instruct"} ->
                 Returned(falconModelURLs(mv, 9) \o falconCommonURLs(mv))
           [] OTHER -> Fatalf
    ELSE getPrivateURLsForModel(base, mv)

(***************************************************************************)
(* The runs explored.                                                      *)
(***************************************************************************)
\* The largest URL list whose goroutines are interleaved (falcon-7b's).
MaxTasks == 10
\* The most positional arguments a private run is given (one too many).
MaxArgs == 6

LinkTypes == {PublicLink, PrivateLink, "Private"}
ModelVersions ==
    {"tiiuae/falcon-7b", "tiiuae/falcon-7b-instruct", "tiiuae/falcon-40b",
     "tiiuae/falcon-40b-instruct", "llama-2-7b", "llama-2-7b-chat", "llama-2-13b",
     "llama-2-13b-chat", "llama-2-70b", "llama-2-70b-chat", "llama-3-8b", "falcon-7b", ""}
ExternalIPs == {"10.0.0.4"}
\* url.Parse accepts only a numeric port.
NumericPorts == {"8080"}
ExternalPorts == NumericPorts \cup {"80a"}
EnvTokens == {"", "s3cret"}

\* main, line 194
BaseURLOf(ip, port) == "http://" \o ip \o ":" \o port \o "/download/"

Range(s) == {s[i] : i \in DOMAIN s}

\* URLs that http.NewRequest rejects: those built on a base URL whose port is not a number.
MalformedURLs ==
    UNION {Range(getPrivateURLsForModel(BaseURLOf(ip, port), mv).urls) :
              ip \in ExternalIPs, port \in ExternalPorts \ NumericPorts, mv \in ModelVersions}

\* URLs with no scheme, which client.Do rejects before sending anything: those built
\* on the empty base URL.
SchemelessURLs ==
    UNION {Range(getPrivateURLsForModel("", mv).urls) : mv \in ModelVersions}

\* Argument vectors: the program name and 2 to MaxArgs positional arguments.
ArgVectors ==
    {SubSeq(<<"download_script", lt, mv, "/weights", ip, port, "extra", "extra">>, 1, n + 1) :
        lt \in LinkTypes, mv \in ModelVersions, ip \in ExternalIPs,
        port \in ExternalPorts, n \in 2..MaxArgs}

\* The run's URL list is within the bound on interleaved goroutines.
WithinTasks(args) ==
    Len(args) < 4 \/
    Len(getURLsForModel(args[2],
                        IF args[2] = PrivateLink /\ Len(args) = 6
                        THEN BaseURLOf(args[5], args[6]) ELSE "",
                        args[3]).urls) <= MaxTasks

\* The model versions of the runs explored: one for each arm of the resolver's
\* switches.  falcon-40b's 17 URLs are beyond MaxTasks: its list is checked in SpecURLs.
\* A public run never looks past its third argument and is given two or three.
RunModels ==
    {"tiiuae/falcon-7b", "tiiuae/falcon-40b", "llama-2-7b", "llama-2-13b-chat",
     "llama-2-70b", "llama-3-8b"}

ProgInit ==
    /\ osArgs \in {a \in ArgVectors :
                      /\ WithinTasks(a)
                      /\ Len(a) >= 3 => a[3] \in RunModels
                      /\ a[2] = PublicLink => Len(a) <= 4}
    /\ envToken \in EnvTokens
    /\ dirState \in {"absent", "dir", "file"}
    /\ pc = "start"
    /\ exit = "running"
    /\ logged = ""
    /\ linkType = "" /\ modelVersion = "" /\ outputDirectory = ""
    /\ token = "" /\ baseURL = ""
    /\ envRead = FALSE
    /\ resolved = FALSE
    /\ urls = <<>>
    /\ wg = 0
    /\ task = <<>>
    /\ files = {}
    /\ gets = <<>>

WCIdle ==
    /\ wcTotal = 0 /\ wcRead = 0 /\ wcLastReported = 0
    /\ wcChunks = <<>> /\ wcPrinted = <<>> /\ wcRet = <<>>

Init == ProgInit /\ WCIdle

(***************************************************************************)
(* main.                                                                   *)
(***************************************************************************)
\* log.Fatal / log.Fatalf: the message is written and os.Exit(1) ends the process
\* with all its goroutines, deferred calls not run.
Fatal(msg) ==
    /\ logged' = msg
    /\ exit' = "fail"
    /\ pc' = "exited"
    /\ task' = <<>>
    /\ wg' = 0

\* main, lines 173-179
MainArgs ==
    /\ pc = "start" /\ exit = "running"
    /\ \/ /\ Len(osArgs) < 4
          /\ Fatal("usage")
          /\ UNCHANGED <<linkType, modelVersion, outputDirectory>>
       \/ /\ Len(osArgs) >= 4
          /\ linkType' = osArgs[2]
          /\ modelVersion' = osArgs[3]
          /\ outputDirectory' = osArgs[4]
          /\ pc' = "ensureDir"
          /\ UNCHANGED <<exit, logged, task, wg>>
    /\ UNCHANGED <<osArgs, envToken, dirState, token, baseURL, envRead, resolved, urls,
                   files, gets, wcVars>>

\* ensureDirExists(outputDirectory): only a path that does not exist is created;
\* os.MkdirAll may fail.
ensureDirExists ==
    /\ pc = "ensureDir" /\ exit = "running"
    /\ \/ /\ dirState = "absent"
          /\ dirState' = "dir"
          /\ pc' = "linkCheck"
          /\ UNCHANGED <<exit, logged, task, wg>>
       \/ /\ dirState = "absent"
          /\ Fatal("mkdir")
          /\ UNCHANGED dirState
       \/ /\ dirState # "absent"
          /\ pc' = "linkCheck"
          /\ UNCHANGED <<dirState, exit, logged, task, wg>>
    /\ UNCHANGED <<osArgs, envToken, linkType, modelVersion, outputDirectory, token,
                   baseURL, envRead, resolved, urls, files, gets, wcVars>>

\* MainPrivate without the check that the token is set.
MainPrivateNoTokenCheck ==
    /\ pc = "linkCheck" /\ exit = "running"
    /\ \/ /\ linkType # PrivateLink
          /\ pc' = "resolve"
          /\ UNCHANGED <<token, baseURL, envRead, exit, logged, task, wg>>
       \/ /\ linkType = PrivateLink
          /\ Len(osArgs) # 6
          /\ Fatal("usage (private link)")
          /\ UNCHANGED <<token, baseURL, envRead>>
       \/ /\ linkType = PrivateLink
          /\ Len(osArgs) = 6
          /\ envRead' = TRUE
          /\ token' = envToken
          /\ baseURL' = BaseURLOf(osArgs[5], osArgs[6])
          /\ pc' = "resolve"
          /\ UNCHANGED <<exit, logged, task, wg>>
    /\ UNCHANGED <<osArgs, envToken, dirState, linkType, modelVersion, outputDirectory,
                   resolved, urls, files, gets, wcVars>>

\* main, lines 182-195
MainPrivate ==
    /\ pc = "linkCheck" /\ exit = "running"
    /\ \/ /\ linkType # PrivateLink
          /\ pc' = "resolve"
          /\ UNCHANGED <<token, baseURL, envRead, exit, logged, task, wg>>
       \/ /\ linkType = PrivateLink
          /\ Len(osArgs) # 6
          /\ Fatal("usage (private link)")
          /\ UNCHANGED <<token, baseURL, envRead>>
       \/ /\ linkType = PrivateLink
          /\ Len(osArgs) = 6
          /\ envRead' = TRUE
          /\ token' = envToken
          /\ envToken = ""
          /\ Fatal("AUTH_TOKEN_ENV_VAR not set!")
          /\ UNCHANGED baseURL
       \/ /\ linkType = PrivateLink
          /\ Len(osArgs) = 6
          /\ envRead' = TRUE
          /\ token' = envToken
          /\ envToken # ""
          /\ baseURL' = BaseURLOf(osArgs[5], osArgs[6])
          /\ pc' = "resolve"
          /\ UNCHANGED <<exit, logged, task, wg>>
    /\ UNCHANGED <<osArgs, envToken, dirState, linkType, modelVersion, outputDirectory,
                   resolved, urls, files, gets, wcVars>>

\* main, line 197: urls := getURLsForModel(linkType, baseURL, modelVersion)
MainResolve ==
    /\ pc = "resolve" /\ exit = "running"
    /\ resolved' = TRUE
    /\ LET r == getURLsForModel(linkType, baseURL, modelVersion) IN
       \/ /\ r.ok
          /\ urls' = r.urls
          /\ pc' = "launch"
          /\ UNCHANGED <<exit, logged, task, wg>>
       \/ /\ ~r.ok
          /\ Fatal("Invalid model version")
          /\ UNCHANGED urls
    /\ UNCHANGED <<osArgs, envToken, dirState, linkType, modelVersion, outputDirectory,
                   token, baseURL, envRead, files, gets, wcVars>>

\* MainLaunch without wg.Add(1).
MainLaunchNoAdd ==
    /\ pc = "launch" /\ exit = "running"
    /\ Len(task) < Len(urls)
    /\ task' = Append(task, [pc |-> "create", folderPath |-> outputDirectory,
                             url |-> urls[Len(task) + 1], token |-> token])
    /\ UNCHANGED <<osArgs, envToken, dirState, pc, exit, logged, linkType, modelVersion,
                   outputDirectory, token, baseURL, envRead, resolved, urls, wg, files,
                   gets, wcVars>>

\* main, lines 200-203: wg.Add(1); go downloadFile(outputDirectory, url, token, &wg)
MainLaunch ==
    /\ pc = "launch" /\ exit = "running"
    /\ Len(task) < Len(urls)
    /\ wg' = wg + 1
    /\ task' = Append(task, [pc |-> "create", folderPath |-> outputDirectory,
                             url |-> urls[Len(task) + 1], token |-> token])
    /\ UNCHANGED <<osArgs, envToken, dirState, pc, exit, logged, linkType, modelVersion,
                   outputDirectory, token, baseURL, envRead, resolved, urls, files,
                   gets, wcVars>>

\* MainWait returning without waiting for the counter to reach zero.
MainWaitNoBarrier ==
    /\ pc = "launch" /\ exit = "running"
    /\ Len(task) = Len(urls)
    /\ pc' = "exited"
    /\ exit' = "ok"
    /\ UNCHANGED <<osArgs, envToken, dirState, logged, linkType, modelVersion,
                   outputDirectory, token, baseURL, envRead, resolved, urls, wg, task,
                   files, gets, wcVars>>

\* main, line 205: the loop is over, wg.Wait() returns when the counter is zero, and
\* main returns.
MainWait ==
    /\ pc = "launch" /\ exit = "running"
    /\ Len(task) = Len(urls)
    /\ wg = 0
    /\ pc' = "exited"
    /\ exit' = "ok"
    /\ UNCHANGED <<osArgs, envToken, dirState, logged, linkType, modelVersion,
                   outputDirectory, token, baseURL, envRead, resolved, urls, wg, task,
                   files, gets, wcVars>>

(***************************************************************************)
(* downloadFile, one goroutine per URL.                                    *)
(***************************************************************************)
\* AuthHeader adding the header whatever the token.
AuthHeaderAlways(tok) == "Bearer " \o tok

\* downloadFile, lines 45-48: the header a request is given
AuthHeader(tok) == IF tok # "" THEN "Bearer " \o tok ELSE NoHeader

\* client.Do is handed a GET for url carrying Authorization header h.
Sent(url, h) ==
    IF url \in DOMAIN gets
    THEN [gets EXCEPT ![url] = Append(@, h)]
    ELSE (url :> <<h>>) @@ gets

\* CreateFile going on after os.Create failed instead of log.Fatal.
CreateFileIgnoreErr(i) ==
    /\ exit = "running"
    /\ i \in DOMAIN task
    /\ task[i].pc = "create"
    /\ \/ /\ dirState = "dir"
          /\ files' = files \cup {task[i].url}
       \/ UNCHANGED files
    /\ task' = [task EXCEPT ![i].pc = "transfer"]
    /\ UNCHANGED <<osArgs, envToken, dirState, pc, exit, logged, wg, linkType,
                   modelVersion, outputDirectory, token, baseURL, envRead, resolved,
                   urls, gets, wcVars>>

\* downloadFile, lines 30-38: os.Create(filepath.Join(folderPath, fileName)).  It
\* succeeds only in a directory, and may fail there too.
CreateFile(i) ==
    /\ exit = "running"
    /\ i \in DOMAIN task
    /\ task[i].pc = "create"
    /\ \/ /\ dirState = "dir"
          /\ files' = files \cup {task[i].url}
          /\ task' = [task EXCEPT ![i].pc = "transfer"]
          /\ UNCHANGED <<pc, exit, logged, wg>>
       \/ /\ Fatal("err")
          /\ UNCHANGED files
    /\ UNCHANGED <<osArgs, envToken, dirState, linkType, modelVersion, outputDirectory,
                   token, baseURL, envRead, resolved, urls, gets, wcVars>>

\* downloadFile, lines 40-69: http.NewRequest, the optional header, client.Do,
\* io.Copy of the body into the file, and the deferred wg.Done() on return.
Transfer(i) ==
    /\ exit = "running"
    /\ i \in DOMAIN task
    /\ task[i].pc = "transfer"
    /\ LET url == task[i].url
           h == AuthHeader(task[i].token) IN
       \/ /\ url \in MalformedURLs                  \* http.NewRequest fails
          /\ Fatal("err")
          /\ UNCHANGED gets
       \/ /\ url \notin MalformedURLs
          /\ url \in SchemelessURLs                 \* client.Do fails, nothing sent
          /\ Fatal("err")
          /\ UNCHANGED gets
       \/ /\ url \notin MalformedURLs
          /\ url \notin SchemelessURLs              \* client.Do fails
          /\ gets' = Sent(url, h)
          /\ Fatal("err")
       \/ /\ url \notin MalformedURLs
          /\ url \notin SchemelessURLs              \* io.Copy fails
          /\ gets' = Sent(url, h)
          /\ Fatal("err")
       \/ /\ url \notin MalformedURLs
          /\ url \notin SchemelessURLs              \* the body is written to the end
          /\ gets' = Sent(url, h)
          /\ task' = [task EXCEPT ![i].pc = "done"]
          /\ wg' = wg - 1
          /\ UNCHANGED <<pc, exit, logged>>
    /\ UNCHANGED <<osArgs, envToken, dirState, linkType, modelVersion, outputDirectory,
                   token, baseURL, envRead, resolved, urls, files, wcVars>>

downloadFile(i) == CreateFile(i) \/ Transfer(i)

Next ==
    \/ MainArgs
    \/ ensureDirExists
    \/ MainPrivate
    \/ MainResolve
    \/ MainLaunch
    \/ MainWait
    \/ \E i \in 1..MaxTasks : downloadFile(i)

Spec == Init /\ [][Next]_vars

\* The Go scheduler runs every runnable goroutine, and a transfer ends or fails: a
\* step that can be taken is eventually taken.  AUTH_TOKEN_ENV_VAR is read by private
\* runs only; the other runs are followed with it set.
FairInit == Init /\ (envToken = "" => osArgs[2] = PrivateLink)

FairSpec == FairInit /\ [][Next]_vars /\ WF_vars(Next)

(***************************************************************************)
(* SpecURLs: getURLsForModel called on any link type, base URL and model.  *)
(***************************************************************************)
BaseURLs == {""} \cup {BaseURLOf(ip, port) : ip \in ExternalIPs, port \in ExternalPorts}

URLInit ==
    /\ osArgs = <<>> /\ envToken = "" /\ dirState = "dir"
    /\ pc = "resolve"
    /\ exit = "running"
    /\ logged = ""
    /\ linkType \in LinkTypes
    /\ modelVersion \in ModelVersions
    /\ baseURL \in BaseURLs
    /\ outputDirectory = "" /\ token = ""
    /\ envRead = FALSE
    /\ resolved = FALSE
    /\ urls = <<>>
    /\ wg = 0
    /\ task = <<>>
    /\ files = {}
    /\ gets = <<>>
    /\ WCIdle

SpecURLs == URLInit /\ [][MainResolve]_vars

(***************************************************************************)
(* SpecWC: a WriteCounter as downloadFile builds it, and its Write calls.  *)
(***************************************************************************)
\* The most bytes one Write is handed, and the most Write calls followed.
MaxChunk == 4
MaxWrites == 4

\* resp.ContentLength: the body's length, or -1 when it is unknown.
ContentLengths == {-1, 0, 100, 250, 399, 1000}

\* Go's integer division truncates toward zero (b > 0).
GoDiv(a, b) == IF a >= 0 THEN a \div b ELSE 0 - ((0 - a) \div b)

\* downloadFile, lines 59-62: &WriteCounter{filename: fp, total: totalBytes, read: &bytesRead}
WCInit ==
    /\ osArgs = <<>> /\ envToken = "" /\ dirState = "dir"
    /\ pc = "copying"
    /\ exit = "running"
    /\ logged = ""
    /\ linkType = "" /\ modelVersion = "" /\ outputDirectory = ""
    /\ token = "" /\ baseURL = ""
    /\ envRead = FALSE
    /\ resolved = FALSE
    /\ urls = <<>>
    /\ wg = 0
    /\ task = <<>>
    /\ files = {}
    /\ gets = <<>>
    /\ wcTotal \in ContentLengths
    /\ wcRead = 0
    /\ wcLastReported = 0
    /\ wcChunks = <<>> /\ wcPrinted = <<>> /\ wcRet = <<>>

\* Write reporting only when the bytes since the last report exceed one percent.
WriteStrict(n) ==
    /\ pc = "copying"
    /\ Len(wcChunks) < MaxWrites
    /\ wcChunks' = Append(wcChunks, n)
    /\ wcRead' = wcRead + n
    /\ LET onePercent == GoDiv(wcTotal, 100) IN
       \/ /\ wcRead + n - wcLastReported > onePercent
          /\ wcPrinted' = Append(wcPrinted, wcRead + n)
          /\ wcLastReported' = wcRead + n
       \/ /\ ~(wcRead + n - wcLastReported > onePercent)
          /\ UNCHANGED <<wcPrinted, wcLastReported>>
    /\ wcRet' = <<n, "nil">>
    /\ UNCHANGED <<wcTotal, progVars>>

\* (wc *WriteCounter) Write(p) with len(p) = n
Write(n) ==
    /\ pc = "copying"
    /\ Len(wcChunks) < MaxWrites
    /\ wcChunks' = Append(wcChunks, n)
    /\ wcRead' = wcRead + n
    /\ LET onePercent == GoDiv(wcTotal, 100) IN
       \/ /\ wcRead + n - wcLastReported >= onePercent
          /\ wcPrinted' = Append(wcPrinted, wcRead + n)
          /\ wcLastReported' = wcRead + n
       \/ /\ ~(wcRead + n - wcLastReported >= onePercent)
          /\ UNCHANGED <<wcPrinted, wcLastReported>>
    /\ wcRet' = <<n, "nil">>
    /\ UNCHANGED <<wcTotal, progVars>>

WCNext == \E n \in 0..MaxChunk : Write(n)

SpecWC == WCInit /\ [][WCNext]_vars

(***************************************************************************)
(* Properties.                                                             *)
(***************************************************************************)
\* The run's link type and whether a private run's preconditions hold, read off the
\* command line and the environment.
RunLinkType == osArgs[2]
PrivateArgsAndToken == Len(osArgs) = 6 /\ envToken # ""

Unfinished == {i \in DOMAIN task : task[i].pc # "done"}
NothingDownloaded == task = <<>> /\ files = {} /\ gets = <<>>
Headers == UNION {Range(gets[u]) : u \in DOMAIN gets}

\* C1: one goroutine per URL of the resolver's list, in list order; the WaitGroup
\* counter always equals the number of started goroutines that have not finished
\* (each is added before it starts and takes itself off exactly once); and main
\* returns only when every URL's goroutine was started and has finished.
C1_OneTaskPerURLJoined ==
    /\ Len(task) <= Len(urls)
    /\ \A i \in DOMAIN task : task[i].url = urls[i]
    /\ exit = "running" => wg = Cardinality(Unfinished)
    /\ exit = "ok" =>
          /\ Len(task) = Len(urls)
          /\ Unfinished = {}
          /\ wg = 0

C1_Witness ==
    /\ exit = "ok"
    /\ Len(task) = 10
    /\ Cardinality(Range(urls)) = 10

\* C2: no GET is repeated (at most one per URL); the process has failed exactly when
\* a fatal message was logged, and then nothing runs any more, whatever the other
\* goroutines were doing; and main returns normally only when no step of any
\* goroutine failed: every URL then has its file and its one GET.
C2_FailFastNoRetry ==
    /\ \A u \in DOMAIN gets : Len(gets[u]) <= 1
    /\ (logged # "") <=> (exit = "fail")
    /\ exit = "fail" => task = <<>> /\ ~ENABLED Next
    /\ exit = "ok" =>
          /\ logged = ""
          /\ \A i \in DOMAIN urls : urls[i] \in files /\ urls[i] \in DOMAIN gets

\* A goroutine's error ended the process while two files were created and not yet
\* requested, and another download had been requested.
C2_Witness ==
    /\ exit = "fail"
    /\ logged = "err"
    /\ Cardinality({u \in files : u \notin DOMAIN gets}) >= 2
    /\ gets # <<>>

\* C3: in a private run without exactly five positional arguments or without
\* AUTH_TOKEN_ENV_VAR, the resolver is never called, no goroutine is started, no file
\* is created, no request is made, and the process does not pass the private-link
\* checks nor return normally.
C3_PrivatePreconditions ==
    (RunLinkType = PrivateLink /\ ~PrivateArgsAndToken) =>
        /\ NothingDownloaded
        /\ ~resolved
        /\ urls = <<>>
        /\ exit # "ok"
        /\ pc \in {"start", "ensureDir", "linkCheck", "exited"}

\* A private run with five arguments and no token was stopped at the token check.
C3_Witness ==
    /\ RunLinkType = PrivateLink
    /\ Len(osArgs) = 6
    /\ envToken = ""
    /\ envRead
    /\ exit = "fail"

\* C5: a GET carries an Authorization header iff the token given to downloadFile is
\* non-empty; a public run never reads AUTH_TOKEN_ENV_VAR and none of its requests
\* has the header; every request of a private run has "Bearer " and the token.
C5_BearerOnlyWhenToken ==
    /\ \A h \in Headers : (h # NoHeader) <=> (token # "")
    /\ \A i \in DOMAIN task : task[i].token = token
    /\ RunLinkType = PublicLink => ~envRead /\ token = "" /\ Headers \subseteq {NoHeader}
    /\ RunLinkType = PrivateLink =>
          /\ Headers \subseteq {"Bearer " \o envToken}
          /\ Headers # {} => envToken # ""

\* A public run, with the token set in its environment, has made a request.
C5_Witness ==
    /\ RunLinkType = PublicLink
    /\ envToken # ""
    /\ Cardinality(DOMAIN gets) >= 2

\* C6: whenever a goroutine has been started or a file created, the output path is
\* a directory; when the directory could not be created, the resolver is not called.
C6_OutputIsDirectory ==
    /\ (task # <<>> \/ files # {}) => dirState = "dir"
    /\ logged = "mkdir" => ~resolved

\* C10: a run whose first argument is neither "public" nor "private" starts no
\* goroutine, creates no file and makes no request.
C10_RecognisedLinkType ==
    RunLinkType \notin {PublicLink, PrivateLink} => NothingDownloaded

\* C7: under fair scheduling the process eventually exits; main returns normally
\* only past the barrier with every goroutine finished; and while the barrier
\* holds main back, the counter counts goroutines that were started and have not
\* finished, so some goroutine is still running.
C7_Terminates ==
    /\ <>(exit # "running")
    /\ [](exit = "ok" => Len(task) = Len(urls) /\ Unfinished = {})
    /\ []((exit = "running" /\ pc = "launch" /\ Len(task) = Len(urls) /\ wg # 0) =>
             (wg > 0 /\ wg <= Cardinality(Unfinished)))

\* main is held at the barrier by running goroutines, others having finished.
C7_Witness ==
    /\ exit = "running"
    /\ pc = "launch"
    /\ Len(task) = Len(urls)
    /\ wg > 0
    /\ \E i \in DOMAIN task : task[i].pc = "done"

\* The file names of the claims, written out.
FiveDigits == <<"00001", "00002", "00003", "00004", "00005", "00006", "00007", "00008",
                "00009">>
TwoDigits == <<"00", "01", "02", "03", "04", "05", "06", "07">>
CommonFiles == <<"config.json", "pytorch_model.bin.index.json", "tokenizer.json",
                 "tokenizer_config.json", "special_tokens_map.json",
                 "configuration_falcon.py", "generation_config.json",
                 "modeling_falcon.py">>

PublicList(mv, count) ==
    [i \in 1..count |-> "https://huggingface.co/" \o mv \o "/resolve/main/pytorch_model-"
                           \o FiveDigits[i] \o "-of-" \o FiveDigits[count] \o ".bin"]
    \o [j \in 1..8 |-> "https://huggingface.co/" \o mv \o "/raw/main/" \o CommonFiles[j]]

PrivateList(base, mv, k) ==
    [i \in 1..k |-> base \o mv \o "/consolidated." \o TwoDigits[i] \o ".pth"]
    \o << base \o mv \o "/params.json" >>

Injective(list) == Cardinality(Range(list)) = Len(list)

\* C4: for link type "public" the resolver returns, for falcon-7b(-instruct) and
\* falcon-40b(-instruct), the 2 resp. 9 shard URLs in ascending order, each once,
\* followed by the 8 common files in their order (10 and 17 URLs); for any other
\* model the process ends and no list is produced.
C4_PublicURLs ==
    (linkType = PublicLink /\ resolved) =>
        CASE modelVersion \in {"tiiuae/falcon-7b", "tiiuae/falcon-7b-instruct"} ->
                /\ exit = "running"
                /\ urls = PublicList(modelVersion, 2)
                /\ Len(urls) = 10 /\ Injective(urls)
          [] modelVersion \in {"tiiuae/falcon-40b", "tiiuae/falcon-40b-instruct"} ->
                /\ exit = "running"
                /\ urls = PublicList(modelVersion, 9)
                /\ Len(urls) = 17 /\ Injective(urls)
          [] OTHER ->
                /\ exit = "fail"
                /\ urls = <<>>

C4_Witness ==
    /\ linkType = PublicLink
    /\ modelVersion = "tiiuae/falcon-40b-instruct"
    /\ resolved
    /\ Len(urls) = 17

\* C9: for a link type other than "public" the resolver returns, for llama-2-7b,
\* -13b and -70b (and their -chat variants), the shards consolidated.00.pth to
\* consolidated.(k-1).pth for k = 1, 2, 8, none skipped or repeated, then params.json
\* last; for any other model the process ends and no list is produced.
C9_PrivateURLs ==
    (linkType # PublicLink /\ resolved) =>
        CASE modelVersion \in {"llama-2-7b", "llama-2-7b-chat"} ->
                exit = "running" /\ urls = PrivateList(baseURL, modelVersion, 1)
          [] modelVersion \in {"llama-2-13b", "llama-2-13b-chat"} ->
                exit = "running" /\ urls = PrivateList(baseURL, modelVersion, 2)
          [] modelVersion \in {"llama-2-70b", "llama-2-70b-chat"} ->
                exit = "running" /\ urls = PrivateList(baseURL, modelVersion, 8)
          [] OTHER ->
                exit = "fail" /\ urls = <<>>

RECURSIVE Sum(_)
Sum(seq) == IF seq = <<>> THEN 0 ELSE seq[1] + Sum(Tail(seq))

\* One percent of the total, truncated toward zero.
OnePercentOfTotal == IF wcTotal >= 0 THEN wcTotal \div 100 ELSE 0 - ((0 - wcTotal) \div 100)

\* C8: read is the sum of the chunk lengths written, lastReported <= read and
\* lastReported is the last read value reported; a Write reports exactly when, with
\* its chunk added, read - lastReported >= total/100, and then sets lastReported to
\* read; consecutive reports are at least total/100 bytes apart; Write returns the
\* chunk's length and no error.
C8_ProgressReports ==
    /\ [](/\ wcRead = Sum(wcChunks)
          /\ wcLastReported <= wcRead
          /\ wcLastReported = IF wcPrinted = <<>> THEN 0 ELSE wcPrinted[Len(wcPrinted)]
          /\ \A k \in 1..(Len(wcPrinted) - 1) :
                wcPrinted[k + 1] - wcPrinted[k] >= OnePercentOfTotal
          /\ wcChunks # <<>> => wcRet = <<wcChunks[Len(wcChunks)], "nil">>)
    /\ [][wcChunks' # wcChunks =>
            IF wcRead' - wcLastReported >= OnePercentOfTotal
            THEN wcPrinted' = Append(wcPrinted, wcRead') /\ wcLastReported' = wcRead'
            ELSE wcPrinted' = wcPrinted /\ wcLastReported' = wcLastReported]_vars

\* Two reports were made and a Write in between made none.
C8_Witness ==
    /\ wcTotal >= 100
    /\ Len(wcPrinted) >= 2
    /\ Len(wcChunks) > Len(wcPrinted)
    /\ \E k \in DOMAIN wcChunks : wcChunks[k] > 0 /\ Sum(SubSeq(wcChunks, 1, k)) \notin Range(wcPrinted)

====
